---------------------------- MODULE Spec2Model ----------------------------
(***************************************************************************)
(* A model of the go-debugger command loop (debugger.go): a ptrace-based   *)
(* source debugger.  The state is the tracee (its text bytes, its program  *)
(* counter, its lifecycle), the variables of main() (filename, lineno,     *)
(* command), the locals of runToSourceLine while it waits in cont(), and   *)
(* the position of main() itself.                                          *)
(*                                                                         *)
(* Strings of the program are sequences of one-character strings, so that  *)
(* strings.Split / strings.HasPrefix / strconv.Atoi are computed, not      *)
(* assumed.                                                                *)
(***************************************************************************)
EXTENDS Integers, Sequences, FiniteSets, TLC

VARIABLES
    mem,          \* tracee text bytes, as PTRACE_PEEKDATA/POKEDATA see them
    text,         \* the bytes of the executable as loaded (never written)
    regPC,        \* tracee instruction pointer (PtraceRegs.PC)
    tracee,       \* "stopped" | "running" | "exited" | "killed"
    ws,           \* last syscall.WaitStatus: "none" | "trap" | "signal" | "exit"
    filename,     \* main(): filename (line 123)
    lineno,       \* main(): lineno   (line 123, line 177)
    command,      \* main(): command  (line 134), the last line read
    loop,         \* where main() is: "start" | "prompt" | "initRun" |
                  \* "nextRun" | "contRun" | "done" | "fatal"  (and "rt0".."rt2")
    frame,        \* runToSourceLine's locals while it is on the stack, or NoFrame
    breakpoints,  \* the breakpoint collection main() keeps (it declares none)
    breaks,       \* the locations of the break commands carried out so far
    deadOp,       \* a ptrace request was issued to a tracee that no longer exists
    listing,      \* what showListingSource printed for the command at hand
    stdin,        \* os.Stdin: the characters typed, in the pieces read() returns
    offset,       \* how many of these pieces have been read from os.Stdin
    dispatched    \* the command lines the if / else-if chain has been given

vars == << mem, text, regPC, tracee, ws, filename, lineno, command, loop,
           frame, breakpoints, breaks, deadOp, listing, stdin, offset,
           dispatched >>

\* The standard input as the read loop of main() sees it (lines 131-142).
ioVars == << stdin, offset, dispatched >>

-----------------------------------------------------------------------------
(* Bounds *)

\* highest address of the tracee's text
MaxAddr == 12
\* instruction bytes of the executable are drawn from 0..MaxByte (and TRAP)
MaxByte == 1
\* number of break commands a run carries out
MaxBreaks == 2
\* highest address of the memory of the install/remove round trip
RTMaxAddr == 2
\* number of elements strings.Split(file, "\n") gives for a source file
SrcLines == 9
\* length of the text after the command word of a break command
MaxTok == 4

\* the int3 opcode written by setBreakpoint
TRAP == 204

Addr == 0 .. MaxAddr
PCs == 0 .. (MaxAddr + 1)
InstrStart == { a \in Addr : a % 2 = 0 }

-----------------------------------------------------------------------------
(* Strings *)

Chars(s) == { s[i] : i \in 1 .. Len(s) }

HasPrefix(s, p) == Len(s) >= Len(p) /\ SubSeq(s, 1, Len(p)) = p

Contains(s, c) == c \in Chars(s)

\* strings.Split(s, sep) for a one-character separator: "a::b" gives
\* "a", "", "b"; a string without the separator gives itself.
RECURSIVE Split(_, _)
Split(s, sep) ==
    IF ~Contains(s, sep) THEN << s >>
    ELSE LET i == CHOOSE k \in 1 .. Len(s) :
                      s[k] = sep /\ \A j \in 1 .. (k - 1) : s[j] # sep
         IN  << SubSeq(s, 1, i - 1) >> \o Split(SubSeq(s, i + 1, Len(s)), sep)

Digits == << "0", "1", "2", "3", "4", "5", "6", "7", "8", "9" >>

DigitVal(c) == (CHOOSE d \in 1 .. 10 : Digits[d] = c) - 1

IsDigit(c) == \E d \in 1 .. 10 : Digits[d] = c

RECURSIVE DecVal(_)
DecVal(s) ==
    IF Len(s) = 0 THEN 0
    ELSE 10 * DecVal(SubSeq(s, 1, Len(s) - 1)) + DigitVal(s[Len(s)])

\* strconv.Atoi: an optional sign, then one or more decimal digits.
Atoi(s) ==
    LET signed == Len(s) > 0 /\ s[1] \in { "+", "-" }
        body == IF signed THEN SubSeq(s, 2, Len(s)) ELSE s
    IN  IF Len(body) = 0 \/ \E i \in 1 .. Len(body) : ~IsDigit(body[i])
        THEN [ err |-> TRUE, val |-> 0 ]
        ELSE [ err |-> FALSE,
               val |-> IF signed /\ s[1] = "-" THEN 0 - DecVal(body)
                       ELSE DecVal(body) ]

-----------------------------------------------------------------------------
(* Command recognition (debugger.go 199-238) *)

isRegisterCommand(c) ==
    \/ HasPrefix(c, << "r", "e", "g", "i", "s", "t", "e", "r", " " >>)
    \/ HasPrefix(c, << "r", "e", "g", " " >>)
    \/ HasPrefix(c, << "r", " " >>)

isBreakpointCommand(c) ==
    \/ HasPrefix(c, << "b", "r", "e", "a", "k", "p", "o", "i", "n", "t", " " >>)
    \/ HasPrefix(c, << "b", "r", "e", "a", "k", " " >>)
    \/ HasPrefix(c, << "b", " " >>)

isStepCommand(c) == c = << "s", "t", "e", "p" >> \/ c = << "s" >>

isStepOverCommand(c) == c = << "n", "e", "x", "t" >> \/ c = << "n" >>

isContinueCommand(c) ==
    c = << "c", "o", "n", "t", "i", "n", "u", "e" >> \/ c = << "c" >>

isHelpCommand(c) ==
    c = << "h", "e", "l", "p" >> \/ c = << "h" >> \/ c = << "?" >>

isListingCommand(c) ==
    \/ HasPrefix(c, << "l", "i", "s", "t", "i", "n", "g", " " >>)
    \/ HasPrefix(c, << "l", "i", "s", "t", " " >>)
    \/ HasPrefix(c, << "l", " " >>)
    \/ c = << "l", "i", "s", "t", "i", "n", "g" >>
    \/ c = << "l", "i", "s", "t" >>
    \/ c = << "l" >>

isQuitCommand(c) ==
    c = << "q" >> \/ c = << "q", "u", "i", "t" >> \/ c = << "e", "x", "i", "t" >>

\* The if / else-if chain of main(), lines 144-195: the first test that
\* succeeds selects the branch.
Branch(c) ==
    IF isHelpCommand(c) THEN "help"
    ELSE IF isRegisterCommand(c) THEN "register"
    ELSE IF isBreakpointCommand(c) THEN "break"
    ELSE IF isStepCommand(c) THEN "step"
    ELSE IF isStepOverCommand(c) THEN "next"
    ELSE IF isContinueCommand(c) THEN "continue"
    ELSE IF isListingCommand(c) THEN "list"
    ELSE IF isQuitCommand(c) THEN "quit"
    ELSE "unknown"

\* parseBreakpointCommand taking the number from the last ':'-separated part
\* instead of parts[1].
parseBreakpointCommandLastPart(c, file) ==
    LET parts == Split(c, " ")
        tok == parts[Len(parts)]
        sub == Split(tok, ":")
        f == IF Contains(tok, ":") THEN sub[1] ELSE file
        num == IF Contains(tok, ":") THEN sub[Len(sub)] ELSE tok
        n == Atoi(num)
    IN  IF n.err THEN [ err |-> TRUE, file |-> << >>, line |-> 0 - 1 ]
        ELSE [ err |-> FALSE, file |-> f, line |-> n.val ]

\* parseBreakpointCommand (384-404): the last space-separated part; with a
\* ':' in it, parts[0] is the file and parts[1] the number.
parseBreakpointCommand(c, file) ==
    LET parts == Split(c, " ")
        tok == parts[Len(parts)]
        sub == Split(tok, ":")
        f == IF Contains(tok, ":") THEN sub[1] ELSE file
        num == IF Contains(tok, ":") THEN sub[2] ELSE tok
        n == Atoi(num)
    IN  IF n.err THEN [ err |-> TRUE, file |-> << >>, line |-> 0 - 1 ]
        ELSE [ err |-> FALSE, file |-> f, line |-> n.val ]

-----------------------------------------------------------------------------
(* The symbol table of the debugged binary (getSymbolTable, 306-334) *)

MainGo == << "m", ".", "g", "o" >>
LibGo == << "l", ".", "g", "o" >>
NoFile == << >>

\* .gopclntab: each entry starts a run of addresses of one source line.  Line
\* 6 of m.go has code in two places (a loop), line 5 holds two instructions.
LineTable ==
    << [ pc |-> 0, file |-> MainGo, line |-> 5 ],
       [ pc |-> 4, file |-> MainGo, line |-> 6 ],
       [ pc |-> 6, file |-> MainGo, line |-> 7 ],
       [ pc |-> 8, file |-> MainGo, line |-> 6 ],
       [ pc |-> 10, file |-> LibGo, line |-> 3 ] >>

\* .gosymtab: the functions, [entry, end).  Addresses from 12 on belong to no
\* function.
Funcs ==
    << [ name |-> "main.main", entry |-> 0, end |-> 10 ],
       [ name |-> "lib.helper", entry |-> 10, end |-> 12 ] >>

LookupFunc(name) ==
    LET S == { i \in 1 .. Len(Funcs) : Funcs[i].name = name }
    IN  Funcs[CHOOSE i \in S : TRUE]

\* gosym.Table.PCToLine: "", 0 when no function holds the address.
PCToLine(pc) ==
    IF ~\E i \in 1 .. Len(Funcs) : Funcs[i].entry <= pc /\ pc < Funcs[i].end
    THEN [ file |-> NoFile, line |-> 0 ]
    ELSE LET S == { i \in 1 .. Len(LineTable) : LineTable[i].pc <= pc }
             i == CHOOSE k \in S : \A j \in S : LineTable[j].pc <= LineTable[k].pc
         IN  [ file |-> LineTable[i].file, line |-> LineTable[i].line ]

\* gosym.Table.LineToPC: the lowest address of the line, or an error.
LineToPC(file, line) ==
    LET S == { i \in 1 .. Len(LineTable) :
                 LineTable[i].file = file /\ LineTable[i].line = line }
    IN  IF S = {} THEN [ err |-> TRUE, pc |-> 0 ]
        ELSE [ err |-> FALSE,
               pc |-> LineTable[CHOOSE k \in S :
                          \A j \in S : LineTable[k].pc <= LineTable[j].pc].pc ]

\* ioutil.ReadFile in showListingSource succeeds for the sources of the binary.
SourceFiles == { LineTable[i].file : i \in 1 .. Len(LineTable) }

Resolvable == { [ file |-> LineTable[i].file, line |-> LineTable[i].line ] :
                  i \in 1 .. Len(LineTable) }

-----------------------------------------------------------------------------
(* ptrace on the tracee *)

\* setBreakpoint with the peek after the poke: it returns the byte it wrote.
setBreakpointPeekAfterPoke(m, a) ==
    [ original |-> TRAP, mem |-> [ m EXCEPT ![a] = TRAP ] ]

\* setBreakpoint taking the original byte from the executable's image, not
\* from the live memory of the tracee.
setBreakpointFromImage(m, a) ==
    [ original |-> text[a], mem |-> [ m EXCEPT ![a] = TRAP ] ]

\* setBreakpoint (90-101): peek one byte, poke 0xCC, return the byte peeked.
setBreakpoint(m, a) == [ original |-> m[a], mem |-> [ m EXCEPT ![a] = TRAP ] ]

\* clearBreakpoint whose poke never reaches the tracee.
clearBreakpointNoPoke(m, a, original) == m

\* clearBreakpoint (103-108): poke the byte given.
clearBreakpoint(m, a, original) == [ m EXCEPT ![a] = original ]

\* setPC whose registers are never written back.
setPCLost(old, pc) == old

\* setPC (68-79): read the registers, set the counter, write them back; the
\* result is the tracee's new program counter.
setPC(old, pc) == pc

\* What the tracee can do with one instruction at pc: "run" (it goes on to
\* another instruction), "trap" (int3: SIGTRAP with the counter one past the
\* 0xCC byte), "signal" (stopped by another signal), "exit".  The tracee is an
\* arbitrary program, so control may pass to any instruction; from the middle
\* of an instruction the bytes decode to anything.
Exec(m, pc) ==
    IF pc \notin Addr
    THEN { [ pc |-> pc, st |-> "signal" ], [ pc |-> pc, st |-> "exit" ] }
    ELSE IF m[pc] = TRAP THEN { [ pc |-> pc + 1, st |-> "trap" ] }
    ELSE { [ pc |-> n, st |-> "run" ] :
             n \in IF pc \in InstrStart THEN InstrStart ELSE Addr }
         \cup { [ pc |-> pc, st |-> "signal" ], [ pc |-> pc, st |-> "exit" ] }

NoFrame == [ pc |-> 0 - 1, original |-> 0 - 1 ]

Alive == tracee = "stopped"

\* Nothing has been printed by showListingSource.
NoListing == << >>

-----------------------------------------------------------------------------
(* The session: main() *)

\* The executables considered: every byte an opcode of 0..MaxByte, and one
\* image that holds an int3 of its own at its last address.
Images ==
    LET plain == { [ a \in Addr |-> (a + k) % (MaxByte + 1) ] : k \in 0 .. MaxByte }
    IN  plain \cup { [ a \in Addr |-> IF a = MaxAddr THEN TRAP ELSE a % (MaxByte + 1) ] }

\* The lines typed at the prompt.
Inputs ==
    { << "s" >>, << "s", "t", "e", "p" >>, << "n" >>, << "c" >>, << "l" >>,
      << "l", " ", "7" >>,
      << "h" >>, << "q" >>, << "r", " ", "x" >>, << "x" >>,
      << "b", " ", "6" >>,
      << "b", " ", "m", ".", "g", "o", ":", "7" >>,
      << "b", " ", "l", ".", "g", "o", ":", "3" >>,
      << "b", " ", "9" >>,
      << "b", " ", "z" >> }

\* After elf.Open and initTracee (110-119): the child is stopped at its first
\* instruction, nothing is patched, no command has been read.
Init ==
    /\ text \in Images
    /\ mem = text
    /\ regPC \in InstrStart
    /\ tracee = "stopped"
    /\ ws = "none"
    /\ filename = NoFile
    /\ lineno = 0
    /\ command = << >>
    /\ loop = "start"
    /\ frame = NoFrame
    /\ breakpoints = [ f \in SourceFiles |-> << >> ]
    /\ breaks = << >>
    /\ deadOp = FALSE
    /\ listing = NoListing
    /\ stdin = << >>
    /\ offset = 0
    /\ dispatched = << >>

\* showListingSource (336-363) on a file of SrcLines elements: the rows it
\* prints, each the marker column and the number printed.  i runs over the
\* indices start .. end-1 of lines; the row of index i shows number i + 1 and
\* carries the indicator when i = lineNumber.
showListingSource(file, lineNumber, indicator) ==
    LET start == IF lineNumber - 3 < 0 THEN 0 ELSE lineNumber - 3
        end == IF lineNumber + 3 >= SrcLines THEN SrcLines - 1 ELSE lineNumber + 3
    IN  [ file |-> file,
          line |-> lineNumber,
          rows |-> [ k \in 1 .. (IF end > start THEN end - start ELSE 0) |->
                       [ mark |-> IF start + k - 1 = lineNumber THEN indicator ELSE " ",
                         num |-> start + k ] ] ]

\* log.Fatal: the debugger is gone.  dead tells whether the failing call was
\* a ptrace request to a tracee that no longer exists (ESRCH).
Fatal(dead) ==
    /\ loop' = "fatal"
    /\ deadOp' = (deadOp \/ dead)
    /\ listing' = NoListing

\* showListingPC (365-368) then showListingSource (336-363): ioutil.ReadFile
\* of the file PCToLine names, fatal on error.
showListingPC(pc) ==
    IF PCToLine(pc).file \in SourceFiles
    THEN /\ loop' = "prompt"
         /\ deadOp' = deadOp
         /\ listing' = showListingSource(PCToLine(pc).file, PCToLine(pc).line, ">")
    ELSE Fatal(FALSE)

\* runToSourceLine looking at LineToPC's error only after setBreakpoint: on
\* an error the address LineToPC returned (0) has been patched.
runToSourceLineCallPatchFirst(f, l, then) ==
    LET t == LineToPC(f, l)
    IN  IF ~Alive
        THEN /\ Fatal(TRUE)
             /\ UNCHANGED << mem, tracee, frame >>
        ELSE LET sb == setBreakpoint(mem, t.pc)
             IN  /\ mem' = sb.mem
                 /\ IF t.err
                    THEN Fatal(FALSE) /\ UNCHANGED << tracee, frame >>
                    ELSE /\ frame' = [ pc |-> t.pc, original |-> sb.original ]
                         /\ tracee' = "running"
                         /\ loop' = then
                         /\ deadOp' = deadOp
                         /\ listing' = NoListing

\* runToSourceLine (370-377), up to the wait inside cont(): resolve, patch,
\* resume.  then is where main() is while the tracee runs.
runToSourceLineCall(f, l, then) ==
    LET t == LineToPC(f, l)
    IN  IF t.err
        THEN /\ Fatal(FALSE)
             /\ UNCHANGED << mem, tracee, frame >>
        ELSE IF ~Alive
        THEN /\ Fatal(TRUE)
             /\ UNCHANGED << mem, tracee, frame >>
        ELSE LET sb == setBreakpoint(mem, t.pc)
             IN  /\ mem' = sb.mem
                 /\ frame' = [ pc |-> t.pc, original |-> sb.original ]
                 /\ tracee' = "running"
                 /\ loop' = then
                 /\ deadOp' = deadOp
                 /\ listing' = NoListing

\* The startup taking the cursor from main.main but not running to it.
StartupSkipRun ==
    /\ UNCHANGED ioVars
    /\ loop = "start"
    /\ LET l == PCToLine(LookupFunc("main.main").entry)
       IN  /\ filename' = l.file
           /\ lineno' = l.line
           /\ showListingPC(regPC)
    /\ UNCHANGED << mem, tracee, frame, text, regPC, ws, command, breakpoints,
                    breaks >>

\* main() 121-126: look up main.main, take its first line as the cursor and
\* run to it.
Startup ==
    /\ UNCHANGED ioVars
    /\ loop = "start"
    /\ LET l == PCToLine(LookupFunc("main.main").entry)
       IN  /\ filename' = l.file
           /\ lineno' = l.line
           /\ runToSourceLineCall(l.file, l.line, "initRun")
    /\ UNCHANGED << text, regPC, ws, command, breakpoints, breaks >>

\* The tracee executes one instruction while the debugger waits in Wait4.
TraceeRun ==
    /\ UNCHANGED ioVars
    /\ UNCHANGED listing
    /\ tracee = "running"
    /\ \E o \in Exec(mem, regPC) :
          /\ regPC' = o.pc
          /\ tracee' = CASE o.st = "run" -> "running"
                         [] o.st = "exit" -> "exited"
                         [] OTHER -> "stopped"
          /\ ws' = IF o.st = "run" THEN ws ELSE o.st
    /\ UNCHANGED << mem, text, filename, lineno, command, loop, frame,
                    breakpoints, breaks, deadOp >>

\* runToSourceLine 378-381 once cont() has returned, then the caller's
\* getPC and showListingPC (128-129, 179-180).
runToSourceLineReturn ==
    /\ UNCHANGED ioVars
    /\ loop \in { "initRun", "nextRun" }
    /\ tracee # "running"
    /\ IF ~Alive
       THEN /\ Fatal(TRUE)
            /\ UNCHANGED << mem, regPC, frame >>
       ELSE /\ mem' = clearBreakpoint(mem, frame.pc, frame.original)
            /\ regPC' = setPC(regPC, frame.pc)
            /\ frame' = NoFrame
            /\ showListingPC(regPC')
    /\ UNCHANGED << text, tracee, ws, filename, lineno, command, breakpoints,
                    breaks >>

\* The continue branch (181-182) once cont() has returned: nothing more.
ContinueReturn ==
    /\ UNCHANGED ioVars
    /\ UNCHANGED listing
    /\ loop = "contRun"
    /\ tracee # "running"
    /\ loop' = "prompt"
    /\ UNCHANGED << mem, text, regPC, tracee, ws, filename, lineno, command,
                    frame, breakpoints, breaks, deadOp >>

\* A line is read at the prompt (132-142).
Read(c) ==
    /\ loop = "prompt"
    /\ command' = c

HelpCmd ==
    /\ UNCHANGED ioVars
    /\ listing' = NoListing
    /\ \E c \in Inputs : Read(c) /\ Branch(c) = "help"
    /\ UNCHANGED << mem, text, regPC, tracee, ws, filename, lineno, loop,
                    frame, breakpoints, breaks, deadOp >>

RegisterCmd ==
    /\ UNCHANGED ioVars
    /\ listing' = NoListing
    /\ \E c \in Inputs : Read(c) /\ Branch(c) = "register"
    /\ UNCHANGED << mem, text, regPC, tracee, ws, filename, lineno, loop,
                    frame, breakpoints, breaks, deadOp >>

UnknownCmd ==
    /\ UNCHANGED ioVars
    /\ listing' = NoListing
    /\ \E c \in Inputs : Read(c) /\ Branch(c) = "unknown"
    /\ UNCHANGED << mem, text, regPC, tracee, ws, filename, lineno, loop,
                    frame, breakpoints, breaks, deadOp >>

\* The break branch assigning main()'s filename (= for :=) from the parse.
BreakCmdAssignsFilename ==
    /\ UNCHANGED ioVars
    /\ Len(breaks) < MaxBreaks
    /\ \E c \in Inputs :
          /\ Read(c)
          /\ Branch(c) = "break"
          /\ LET p == parseBreakpointCommand(c, filename)
                 t == LineToPC(p.file, p.line)
             IN  /\ filename' = p.file
                 /\ IF p.err \/ t.err
                    THEN Fatal(FALSE) /\ UNCHANGED << mem, breaks >>
                    ELSE IF ~Alive
                    THEN Fatal(TRUE) /\ UNCHANGED << mem, breaks >>
                    ELSE /\ mem' = setBreakpoint(mem, t.pc).mem
                         /\ breaks' = Append(breaks, [ file |-> p.file, line |-> p.line ])
                         /\ IF p.file \in SourceFiles
                            THEN /\ loop' = "prompt"
                                 /\ deadOp' = deadOp
                                 /\ listing' = showListingSource(p.file, p.line, "*")
                            ELSE Fatal(FALSE)
    /\ UNCHANGED << text, regPC, tracee, ws, lineno, frame, breakpoints >>

\* The break branch (148-160).  filename and pc of the branch are new
\* variables of its block: main()'s filename is read, never assigned.  The
\* byte setBreakpoint returns is dropped and nothing is recorded.
BreakCmd ==
    /\ UNCHANGED ioVars
    /\ Len(breaks) < MaxBreaks
    /\ \E c \in Inputs :
          /\ Read(c)
          /\ Branch(c) = "break"
          /\ LET p == parseBreakpointCommand(c, filename)
                 t == LineToPC(p.file, p.line)
             IN  IF p.err \/ t.err
                 THEN Fatal(FALSE) /\ UNCHANGED << mem, breaks >>
                 ELSE IF ~Alive
                 THEN Fatal(TRUE) /\ UNCHANGED << mem, breaks >>
                 ELSE /\ mem' = setBreakpoint(mem, t.pc).mem
                      /\ breaks' = Append(breaks, [ file |-> p.file, line |-> p.line ])
                      /\ IF p.file \in SourceFiles
                         THEN /\ loop' = "prompt"
                              /\ deadOp' = deadOp
                              /\ listing' = showListingSource(p.file, p.line, "*")
                         ELSE Fatal(FALSE)
    /\ UNCHANGED << text, regPC, tracee, ws, filename, lineno, frame,
                    breakpoints >>

\* The step branch (162-175): one instruction, then getPC and the listing.
StepCmd ==
    /\ UNCHANGED ioVars
    /\ \E c \in Inputs : Read(c) /\ Branch(c) = "step"
    /\ IF ~Alive
       THEN Fatal(TRUE) /\ UNCHANGED << regPC, tracee, ws >>
       ELSE \E o \in Exec(mem, regPC) :
               /\ regPC' = o.pc
               /\ tracee' = IF o.st = "exit" THEN "exited" ELSE "stopped"
               /\ ws' = IF o.st = "run" THEN "trap" ELSE o.st
               /\ IF o.st = "exit" THEN Fatal(TRUE) ELSE showListingPC(o.pc)
    /\ UNCHANGED << mem, text, filename, lineno, frame, breakpoints, breaks >>

\* The next branch running to the following line without storing it.
NextCmdNoAdvance ==
    /\ UNCHANGED ioVars
    /\ \E c \in Inputs : Read(c) /\ Branch(c) = "next"
    /\ lineno' = lineno
    /\ runToSourceLineCall(filename, lineno + 1, "nextRun")
    /\ UNCHANGED << text, regPC, ws, filename, breakpoints, breaks >>

\* The next branch (176-178), up to the wait inside cont().
NextCmd ==
    /\ UNCHANGED ioVars
    /\ \E c \in Inputs : Read(c) /\ Branch(c) = "next"
    /\ lineno' = lineno + 1
    /\ runToSourceLineCall(filename, lineno + 1, "nextRun")
    /\ UNCHANGED << text, regPC, ws, filename, breakpoints, breaks >>

\* The continue branch (181-182), up to the wait inside cont().
ContinueCmd ==
    /\ UNCHANGED ioVars
    /\ \E c \in Inputs : Read(c) /\ Branch(c) = "continue"
    /\ IF ~Alive
       THEN Fatal(TRUE) /\ UNCHANGED tracee
       ELSE /\ tracee' = "running"
            /\ loop' = "contRun"
            /\ deadOp' = deadOp
            /\ listing' = NoListing
    /\ UNCHANGED << mem, text, regPC, ws, filename, lineno, frame,
                    breakpoints, breaks >>

\* The list branch (183-185): getPC and the listing.
ListCmd ==
    /\ UNCHANGED ioVars
    /\ \E c \in Inputs : Read(c) /\ Branch(c) = "list"
    /\ IF ~Alive THEN Fatal(TRUE) ELSE showListingPC(regPC)
    /\ UNCHANGED << mem, text, regPC, tracee, ws, filename, lineno, frame,
                    breakpoints, breaks >>

\* The quit branch (186-192): Kill, then leave the loop.
QuitCmd ==
    /\ UNCHANGED ioVars
    /\ listing' = NoListing
    /\ \E c \in Inputs : Read(c) /\ Branch(c) = "quit"
    /\ tracee' = IF Alive THEN "killed" ELSE tracee
    /\ loop' = "done"
    /\ UNCHANGED << mem, text, regPC, ws, filename, lineno, frame,
                    breakpoints, breaks, deadOp >>

\* End of input (135-139): leave the loop; nothing is done to the tracee.
EndOfInput ==
    /\ UNCHANGED ioVars
    /\ listing' = NoListing
    /\ loop = "prompt"
    /\ command' = << >>
    /\ loop' = "done"
    /\ UNCHANGED << mem, text, regPC, tracee, ws, filename, lineno, frame,
                    breakpoints, breaks, deadOp >>

Next ==
    \/ Startup
    \/ TraceeRun
    \/ runToSourceLineReturn
    \/ ContinueReturn
    \/ HelpCmd
    \/ RegisterCmd
    \/ UnknownCmd
    \/ BreakCmd
    \/ StepCmd
    \/ NextCmd
    \/ ContinueCmd
    \/ ListCmd
    \/ QuitCmd
    \/ EndOfInput

Spec == Init /\ [][Next]_vars

-----------------------------------------------------------------------------
(* install followed immediately by remove, on an arbitrary memory *)

RTAddr == 0 .. RTMaxAddr
ByteVals == (0 .. MaxByte) \cup { TRAP }

InitRT ==
    /\ mem \in [ RTAddr -> ByteVals ]
    /\ text = mem
    /\ regPC = 0
    /\ tracee = "stopped"
    /\ ws = "none"
    /\ filename = NoFile
    /\ lineno = 0
    /\ command = << >>
    /\ loop = "rt0"
    /\ frame = NoFrame
    /\ breakpoints = [ f \in SourceFiles |-> << >> ]
    /\ breaks = << >>
    /\ deadOp = FALSE
    /\ listing = NoListing
    /\ stdin = << >>
    /\ offset = 0
    /\ dispatched = << >>

\* original := setBreakpoint(pid, a)
RTInstall ==
    /\ UNCHANGED ioVars
    /\ UNCHANGED listing
    /\ loop = "rt0"
    /\ \E a \in RTAddr :
          LET sb == setBreakpoint(mem, a)
          IN  /\ mem' = sb.mem
              /\ frame' = [ pc |-> a, original |-> sb.original ]
    /\ loop' = "rt1"
    /\ UNCHANGED << text, regPC, tracee, ws, filename, lineno, command,
                    breakpoints, breaks, deadOp >>

\* clearBreakpoint(pid, a, original)
RTRemove ==
    /\ UNCHANGED ioVars
    /\ UNCHANGED listing
    /\ loop = "rt1"
    /\ mem' = clearBreakpoint(mem, frame.pc, frame.original)
    /\ loop' = "rt2"
    /\ UNCHANGED << text, regPC, tracee, ws, filename, lineno, command,
                    frame, breakpoints, breaks, deadOp >>

NextRT == RTInstall \/ RTRemove

SpecRT == InitRT /\ [][NextRT]_vars

-----------------------------------------------------------------------------
(* parseBreakpointCommand on arbitrary break commands *)

ParseAlphabet == { "7", "a", ":", " ", "-" }

\* The texts after "b " : every string of at most MaxTok characters.
ParseBodies ==
    UNION { [ 1 .. n -> ParseAlphabet ] : n \in 0 .. MaxTok }

InitParse ==
    /\ command \in { << "b", " " >> \o b : b \in ParseBodies }
    /\ filename = MainGo
    /\ loop = "p0"
    /\ mem = [ a \in Addr |-> 0 ]
    /\ text = mem
    /\ regPC = 0
    /\ tracee = "stopped"
    /\ ws = "none"
    /\ lineno = 5
    /\ frame = NoFrame
    /\ breakpoints = [ f \in SourceFiles |-> << >> ]
    /\ breaks = << >>
    /\ deadOp = FALSE
    /\ listing = NoListing
    /\ stdin = << >>
    /\ offset = 0
    /\ dispatched = << >>

\* filename, lineNumber, err := parseBreakpointCommand(command, filename):
\* the location is kept in breaks, the error in loop.
ParseStep ==
    /\ loop = "p0"
    /\ LET p == parseBreakpointCommand(command, filename)
       IN  IF p.err
           THEN loop' = "pErr" /\ breaks' = breaks
           ELSE loop' = "pOk" /\ breaks' = << [ file |-> p.file, line |-> p.line ] >>
    /\ UNCHANGED << mem, text, regPC, tracee, ws, filename, lineno, command,
                    frame, breakpoints, deadOp, listing, stdin, offset,
                    dispatched >>

NextParse == ParseStep

SpecParse == InitParse /\ [][NextParse]_vars

-----------------------------------------------------------------------------
(* The command read loop on a byte stream *)

\* Standard input: at most MaxReads reads of at most MaxRead bytes each.
MaxRead == 4
MaxReads == 2

\* The delimiter of reader.ReadString('\n').
NL == "\n"

StdinAlphabet == { "h", "q", NL }

\* What one read of os.Stdin can return: a pipe or a file hands over as many
\* bytes as are there, whatever lines they make up.
Chunks ==
    UNION { [ 1 .. n -> StdinAlphabet ] : n \in 1 .. MaxRead }

RECURSIVE Concat(_)
Concat(cs) ==
    IF cs = << >> THEN << >> ELSE Head(cs) \o Concat(Tail(cs))

\* The buffer of a bufio.Reader created with offset reads of stdin already
\* taken, after it has read up to read k.
ReaderBuffer(k) == Concat(SubSeq(stdin, offset + 1, k))

\* The reads at which ReadString finds its delimiter in the buffer.
DelimiterAt == { k \in (offset + 1) .. Len(stdin) : Contains(ReaderBuffer(k), NL) }

InitIn ==
    /\ stdin \in UNION { [ 1 .. n -> Chunks ] : n \in 0 .. MaxReads }
    /\ offset = 0
    /\ dispatched = << >>
    /\ command = << >>
    /\ loop = "prompt"
    /\ filename = MainGo
    /\ lineno = 5
    /\ mem = [ a \in Addr |-> 0 ]
    /\ text = mem
    /\ regPC = 0
    /\ tracee = "stopped"
    /\ ws = "none"
    /\ frame = NoFrame
    /\ breakpoints = [ f \in SourceFiles |-> << >> ]
    /\ breaks = << >>
    /\ deadOp = FALSE
    /\ listing = NoListing

\* One iteration of the loop (131-142, then the chain 144-195) on a line the
\* chain does nothing to the tracee for: a new bufio.Reader, ReadString
\* filling it read by read until the buffer holds a newline, the text before
\* the first newline as the command. What the reader holds after that
\* newline goes with the reader. A quit command leaves the loop (186-192).
ReadCommand ==
    /\ loop = "prompt"
    /\ DelimiterAt # {}
    /\ LET k == CHOOSE n \in DelimiterAt : \A m \in DelimiterAt : n <= m
           buf == ReaderBuffer(k)
           line == Head(Split(buf, NL))
       IN  /\ offset' = k
           /\ command' = line
           /\ dispatched' = Append(dispatched, line)
           /\ loop' = IF isQuitCommand(line) THEN "done" ELSE "prompt"
    /\ UNCHANGED << mem, text, regPC, tracee, ws, filename, lineno, frame,
                    breakpoints, breaks, deadOp, listing, stdin >>

\* ReadString reaching the end of the stream without a newline (135-139):
\* io.EOF, the loop is left, what was read is not a command.
ReadEOF ==
    /\ loop = "prompt"
    /\ DelimiterAt = {}
    /\ offset' = Len(stdin)
    /\ command' = << >>
    /\ loop' = "done"
    /\ UNCHANGED << mem, text, regPC, tracee, ws, filename, lineno, frame,
                    breakpoints, breaks, deadOp, listing, stdin, dispatched >>

NextIn ==
    \/ ReadCommand
    \/ ReadEOF

SpecIn == InitIn /\ [][NextIn]_vars

-----------------------------------------------------------------------------
(* Properties *)

RunLoops == { "initRun", "nextRun" }

\* The address a break command's location resolves to.
BreakAddr(b) == LineToPC(b.file, b.line).pc

\* The byte the tracee holds at a when no run-to-line is under way: the trap
\* where a break command patched it, the executable's byte elsewhere.
PromptByte(a) ==
    IF \E i \in 1 .. Len(breaks) : BreakAddr(breaks[i]) = a THEN TRAP ELSE text[a]

\* C1: setBreakpoint followed immediately by clearBreakpoint with the byte
\* setBreakpoint returned leaves every byte of memory, the patched one
\* included, as it was before: no trap opcode is left behind and no other
\* address changes.
C1_RoundTripRestores ==
    loop = "rt2" => /\ mem = text
                    /\ mem[frame.pc] = text[frame.pc]

\* C1 witness: the round trip was carried out on a byte that was no trap.
C1_Witness ==
    loop = "rt2" /\ text[frame.pc] # TRAP /\ mem[frame.pc] = text[frame.pc]

\* C2: every address is either fully installed (it holds the trap byte and
\* the debugger holds its original byte) or fully absent (it holds its
\* original byte).
C2_InstalledOrAbsent ==
    \A a \in DOMAIN mem :
        \/ mem[a] = text[a]
        \/ mem[a] = TRAP /\ frame.pc = a /\ frame.original = text[a]

\* C3: when runToSourceLine returns, the tracee's program counter is
\* LineToPC of the (file, line) it was called with, PCToLine of that address
\* is the same (file, line); and PCToLine(LineToPC(f, l)) is (f, l) for every
\* resolvable (f, l).
C3_RunToLineLandsOnLine ==
    [][ (loop \in RunLoops /\ loop' = "prompt") =>
           /\ ~LineToPC(filename, lineno).err
           /\ regPC' = LineToPC(filename, lineno).pc
           /\ PCToLine(regPC') = [ file |-> filename, line |-> lineno ]
           /\ \A r \in Resolvable :
                 PCToLine(LineToPC(r.file, r.line).pc) = r ]_vars

\* C3 witness: back at the prompt after a next, the counter on the line's
\* address.
C3_Witness ==
    /\ loop = "prompt"
    /\ Branch(command) = "next"
    /\ regPC = LineToPC(filename, lineno).pc

\* C4: once a command has been read, no register or memory request is ever
\* issued to a tracee that has terminated: the tracee is resumed only by
\* step, next and continue, so it terminated during one of them, and the
\* request is made by the rest of that command or by a later one.
C4_NoRequestToDeadTracee == command # << >> => ~deadOp

\* C5: whenever runToSourceLine has returned, whatever stopped the tracee,
\* the byte at the transient breakpoint's address is the byte that was there
\* when it was called.  Calls are made at the start and at the prompt and
\* return to the prompt, break commands happen only at the prompt, so the
\* byte at the call is PromptByte: at the start and at every prompt the whole
\* memory is PromptByte.
C5_TransientRestored ==
    loop \in { "start", "prompt" } => \A a \in DOMAIN mem : mem[a] = PromptByte(a)

\* C5 witness: a next has returned after a stop that was no trap, and the
\* address it patched holds the executable's byte again.
C5_Witness ==
    /\ loop = "prompt"
    /\ Branch(command) = "next"
    /\ ws = "signal"
    /\ mem[LineToPC(filename, lineno).pc] = text[LineToPC(filename, lineno).pc]
    /\ text[LineToPC(filename, lineno).pc] # TRAP

\* C6: at the prompt after a step, next or continue that stopped the tracee,
\* the cursor (filename, lineno) is PCToLine of the tracee's program counter.
C6_CursorFollowsPC ==
    (loop = "prompt" /\ Alive /\ Branch(command) \in { "step", "next", "continue" })
        => PCToLine(regPC) = [ file |-> filename, line |-> lineno ]

\* The breakpoint set the break commands carried out should have built: per
\* file, the lines in the order given.
RECURSIVE LinesOf(_, _)
LinesOf(bs, f) ==
    IF bs = << >> THEN << >>
    ELSE (IF Head(bs).file = f THEN << Head(bs).line >> ELSE << >>)
             \o LinesOf(Tail(bs), f)

\* C7: the session's breakpoint set holds exactly the locations of the break
\* commands carried out, per file, in insertion order.
C7_BreakpointSetAccumulates ==
    \A f \in SourceFiles : breakpoints[f] = LinesOf(breaks, f)

\* C8: when the command loop has ended, by quit or by end of input, the
\* tracee has been killed: it is not left alive.
C8_LoopEndKillsTracee == loop = "done" => ~Alive

\* C9: once a break command has patched an address, the byte there is the
\* trap opcode in every later state of the session.
C9_PersistentStaysInstalled ==
    \A i \in 1 .. Len(breaks) : mem[BreakAddr(breaks[i])] = TRAP

\* C9 witness: a next whose transient breakpoint was at the address of a
\* persistent one has returned to the prompt.
C9_Witness ==
    /\ loop = "prompt"
    /\ Branch(command) = "next"
    /\ \E i \in 1 .. Len(breaks) :
          BreakAddr(breaks[i]) = LineToPC(filename, lineno).pc

\* C10: a next issued with cursor (f, l) runs to (f, l+1), and the cursor is
\* (f, l+1) from then until it is back at the prompt.
C10_NextAdvancesOneLine ==
    [][ /\ (loop = "prompt" /\ loop' = "nextRun") =>
              /\ filename' = filename
              /\ lineno' = lineno + 1
              /\ ~LineToPC(filename, lineno + 1).err
              /\ frame'.pc = LineToPC(filename, lineno + 1).pc
        /\ loop = "nextRun" => (filename' = filename /\ lineno' = lineno) ]_vars

\* C10 witness: two next commands have returned: the cursor is two lines
\* below the first line of main.main.
C10_Witness ==
    /\ loop = "prompt"
    /\ Branch(command) = "next"
    /\ lineno = PCToLine(LookupFunc("main.main").entry).line + 2

\* C11: at the first prompt (no command has been read yet) the cursor is
\* PCToLine of the entry of main.main, and the tracee is stopped with its
\* program counter at LineToPC of that cursor.
C11_FirstPromptAtMain ==
    (loop = "prompt" /\ command = << >>) =>
        /\ [ file |-> filename, line |-> lineno ]
              = PCToLine(LookupFunc("main.main").entry)
        /\ lineno = 5
        /\ filename = MainGo
        /\ Alive
        /\ ~LineToPC(filename, lineno).err
        /\ regPC = LineToPC(filename, lineno).pc

\* C11 witness: the first prompt, reached by the trap of the startup's
\* breakpoint.
C11_Witness ==
    loop = "prompt" /\ command = << >> /\ ws = "trap" /\ Alive

\* The marker the listing rules give line n of file f: '>' on the line the
\* tracee is stopped at, else '*' on a line a break command patched, else
\* blank.
ExpectedMark(f, n) ==
    IF PCToLine(regPC) = [ file |-> f, line |-> n ] THEN ">"
    ELSE IF \E i \in 1 .. Len(breaks) : breaks[i] = [ file |-> f, line |-> n ]
    THEN "*"
    ELSE " "

\* C12: in every listing printed, each row carries the one marker its line
\* number calls for: '>' on the cursor line, otherwise '*' on a line with a
\* breakpoint, otherwise blank.
C12_OneMarkerPerLine ==
    listing # NoListing =>
        \A k \in 1 .. Len(listing.rows) :
            listing.rows[k].mark = ExpectedMark(listing.file, listing.rows[k].num)

\* The line a list command names: the number after the command word, if any.
ListArgument(c) ==
    LET parts == Split(c, " ")
    IN  IF Len(parts) > 1 /\ ~Atoi(parts[Len(parts)]).err
        THEN [ given |-> TRUE, line |-> Atoi(parts[Len(parts)]).val ]
        ELSE [ given |-> FALSE, line |-> 0 ]

\* C13: the listing a list command prints is centered on the line the
\* command names, and on the cursor line when it names none.
C13_ListCentersOnArgument ==
    (loop = "prompt" /\ Branch(command) = "list") =>
        /\ listing # NoListing
        /\ listing.line = IF ListArgument(command).given
                          THEN ListArgument(command).line
                          ELSE lineno

\* The fatal errors of a command c given at the prompt with the tracee
\* stopped: a break whose location does not parse or does not resolve, a list
\* whose source file cannot be read.
FailsFatally(c) ==
    \/ /\ Branch(c) = "break"
       /\ LET p == parseBreakpointCommand(c, filename)
          IN  p.err \/ LineToPC(p.file, p.line).err
    \/ /\ Branch(c) = "list"
       /\ PCToLine(regPC).file \notin SourceFiles

AtOwnTrap == Alive /\ ws = "trap" /\ regPC = frame.pc + 1

\* C15: when cont() has returned inside runToSourceLine, the breakpoint is
\* not removed if the tracee has exited (no request is made to it), the
\* program counter is set to the target address if the tracee stopped at the
\* transient breakpoint, and is left where the tracee stopped otherwise.
C15_RestoreOnlyAtOwnTrap ==
    [][ (loop \in RunLoops /\ tracee # "running" /\ loop' # loop) =>
           /\ ~Alive => deadOp' = deadOp
           /\ AtOwnTrap => regPC' = frame.pc
           /\ ~AtOwnTrap => regPC' = regPC ]_vars

\* The tracee is stopped one byte past a trap opcode the debugger wrote over
\* an instruction, having executed it.
PastPatchedTrap ==
    /\ Alive
    /\ ws = "trap"
    /\ regPC - 1 \in DOMAIN mem
    /\ mem[regPC - 1] = TRAP
    /\ text[regPC - 1] # TRAP

\* The command read resumes the tracee: step and continue always, next when
\* its line resolves.
Resumes(c) ==
    \/ Branch(c) \in { "step", "continue" }
    \/ Branch(c) = "next" /\ ~LineToPC(filename, lineno + 1).err

\* C16: when step, continue or next resumes the tracee after it stopped on a
\* breakpoint trap, the program counter is not one byte past the patched
\* instruction.
C16_ResumeAtPatchedInstruction ==
    [][ (loop = "prompt" /\ Alive /\ command' \in Inputs /\ Resumes(command'))
           => ~PastPatchedTrap ]_vars

\* The last space-delimited token of c.
LastToken(c) ==
    LET S == { i \in 1 .. Len(c) : c[i] = " " }
    IN  IF S = {} THEN c
        ELSE SubSeq(c, (CHOOSE i \in S : \A j \in S : j <= i) + 1, Len(c))

\* A decimal integer: digits, with an optional sign before them.
IsDecimal(s) ==
    /\ Len(s) > 0
    /\ \A i \in 2 .. Len(s) : s[i] \in { Digits[d] : d \in 1 .. 10 }
    /\ \/ s[1] \in { Digits[d] : d \in 1 .. 10 }
       \/ s[1] \in { "+", "-" } /\ Len(s) > 1

RECURSIVE Magnitude(_, _)
Magnitude(s, acc) ==
    IF s = << >> THEN acc
    ELSE Magnitude(Tail(s), 10 * acc + DigitVal(Head(s)))

DecimalValue(s) ==
    IF s[1] = "-" THEN 0 - Magnitude(Tail(s), 0)
    ELSE IF s[1] = "+" THEN Magnitude(Tail(s), 0)
    ELSE Magnitude(s, 0)

ColonsOf(t) == { i \in 1 .. Len(t) : t[i] = ":" }

FirstColon(t) == CHOOSE i \in ColonsOf(t) : \A j \in ColonsOf(t) : i <= j

\* What the parse of c is to be when the line part of the token is all that
\* follows the first colon: "pErr", or "pOk" with the location.
ParseOfWholeRest(c, file) ==
    LET tok == LastToken(c)
        f == IF ColonsOf(tok) = {} THEN file ELSE SubSeq(tok, 1, FirstColon(tok) - 1)
        num == IF ColonsOf(tok) = {} THEN tok
               ELSE SubSeq(tok, FirstColon(tok) + 1, Len(tok))
    IN  IF IsDecimal(num)
        THEN [ loop |-> "pOk", breaks |-> << [ file |-> f, line |-> DecimalValue(num) ] >> ]
        ELSE [ loop |-> "pErr", breaks |-> << >> ]

\* The same when the line part ends at the second colon, if there is one.
ParseOfSecondPart(c, file) ==
    LET tok == LastToken(c)
        f == IF ColonsOf(tok) = {} THEN file ELSE SubSeq(tok, 1, FirstColon(tok) - 1)
        rest == SubSeq(tok, FirstColon(tok) + 1, Len(tok))
        num == IF ColonsOf(tok) = {} THEN tok
               ELSE IF ColonsOf(rest) = {} THEN rest
               ELSE SubSeq(rest, 1, FirstColon(rest) - 1)
    IN  IF IsDecimal(num)
        THEN [ loop |-> "pOk", breaks |-> << [ file |-> f, line |-> DecimalValue(num) ] >> ]
        ELSE [ loop |-> "pErr", breaks |-> << >> ]

\* C17 as stated: parseBreakpointCommand yields (text before the colon,
\* integer after the colon) for a token with a ':', (cursor file, integer)
\* for one without, and a parse error when the line part is no decimal
\* integer, an empty token and a token with more than one ':' included.
C17_ParseAsStated ==
    loop \in { "pOk", "pErr" } =>
        [ loop |-> loop, breaks |-> breaks ] = ParseOfWholeRest(command, filename)

\* C17 as amended: the line part of a token with a ':' is the text between
\* its first colon and its second colon (or its end); what follows a second
\* colon is ignored, so "m.go:7:x" is (m.go, 7) and no parse error.
C17_ParseSecondPart ==
    loop \in { "pOk", "pErr" } =>
        [ loop |-> loop, breaks |-> breaks ] = ParseOfSecondPart(command, filename)

\* C17 witness: a token with two colons has been parsed to a location.
C17_Witness ==
    /\ loop = "pOk"
    /\ Cardinality(ColonsOf(LastToken(command))) > 1
    /\ breaks[1].line = 7

\* The command c names a location that parses and that LineToPC cannot
\* resolve: a break at it, or a next from the line before it.
NamesUnresolvable(c) ==
    \/ /\ Branch(c) = "break"
       /\ LET p == parseBreakpointCommand(c, filename)
          IN  ~p.err /\ LineToPC(p.file, p.line).err
    \/ /\ Branch(c) = "next"
       /\ LineToPC(filename, lineno + 1).err

\* C18: a break or next naming a location LineToPC cannot resolve ends the
\* debugger (log.Fatal) with the tracee's memory, program counter and state
\* as they were before the command: nothing is written, nothing is resumed,
\* no request is made to the tracee.
C18_UnresolvableChangesNothing ==
    [][ (loop = "prompt" /\ command' \in Inputs /\ NamesUnresolvable(command')) =>
           /\ loop' = "fatal"
           /\ mem' = mem
           /\ regPC' = regPC
           /\ tracee' = tracee
           /\ frame' = frame
           /\ deadOp' = deadOp ]_vars

\* C18 witness: a next from the last line with code has ended the debugger,
\* the tracee still stopped.
C18_Witness ==
    /\ loop = "fatal"
    /\ Branch(command) = "next"
    /\ LineToPC(filename, lineno).err
    /\ Alive

\* The line numbers a listing centered on line c of a file of n lines is to
\* show: three before and three after, clipped to the file.
WindowOf(c, n) ==
    LET lo == IF c - 3 < 1 THEN 1 ELSE c - 3
        hi == IF c + 3 > n THEN n ELSE c + 3
    IN  [ k \in 1 .. (IF hi >= lo THEN hi - lo + 1 ELSE 0) |-> lo + k - 1 ]

\* C19: every listing printed for center line c shows exactly the lines
\* numbered max(1, c-3) through min(n, c+3), in order, each under its own
\* 1-based number.
C19_WindowAroundCenter ==
    listing # NoListing =>
        [ k \in 1 .. Len(listing.rows) |-> listing.rows[k].num ]
            = WindowOf(listing.line, SrcLines)

\* The newline-terminated lines of a byte stream, in order.
TerminatedLines(s) ==
    LET p == Split(s, NL) IN SubSeq(p, 1, Len(p) - 1)

\* The lines up to and including the first quit command, all of them if
\* there is none.
UpToQuit(ls) ==
    LET qs == { i \in 1 .. Len(ls) : isQuitCommand(ls[i]) }
    IN  IF qs = {} THEN ls
        ELSE SubSeq(ls, 1, CHOOSE i \in qs : \A j \in qs : i <= j)

\* C20: when the command loop has ended, the lines it dispatched are exactly
\* the newline-terminated lines of standard input up to the first quit
\* command, each once and in input order, however the lines were spread
\* over the reads of the stream.
C20_EveryLineDispatchedOnce ==
    loop = "done" => dispatched = UpToQuit(TerminatedLines(Concat(stdin)))

=============================================================================
